---- MODULE Spec2Model ----
(***************************************************************************)
(* The "mc" scanner of zgrab2 (modules/mc/scanner.go): readVarInt and      *)
(* Scanner.Scan, run against one connection whose peer, clock and          *)
(* transport faults are chosen nondeterministically.                       *)
(*                                                                         *)
(* Representation notes.                                                   *)
(*  - A Go int is 64 bits wide; TLC integers are 32 bits wide, so an int   *)
(*    that can exceed 2^31 (the value readVarInt builds) is kept as two    *)
(*    limbs [hi, lo] standing for hi * 2^LimbBits + lo.                    *)
(*  - A byte slice made by make([]byte, n) is [len |-> n, head |-> s]:     *)
(*    the elements above Len(s) are the zero bytes make() put there.  A    *)
(*    hex string is kept the same way, its elements above Len(s) being     *)
(*    the character "0".                                                   *)
(*  - Time is counted in whole seconds.                                    *)
(***************************************************************************)
EXTENDS Integers, Sequences, FiniteSets, TLC

----------------------------------------------------------------------------
(* Program constants *)

\* const maxBytes = 5 in readVarInt
maxBytes == 5

\* if length > 32800
MaxBannerLen == 32800

\* if length < 1
MinBannerLen == 1

\* if length != 9
Banner2Len == 9

\* time.After(5 * time.Second)
ReadTimeout == 5

\* width in bits of the low limb of an int
LimbBits == 28

----------------------------------------------------------------------------
(* Bounds of the model *)

\* the peer sends at most this many payload bytes more than the 9 of round 2
MaxExtra == 1

\* the clock stops advancing at this many seconds
MaxTime == 9

----------------------------------------------------------------------------
(* Arithmetic on bytes and on 64-bit ints *)

RECURSIVE Pow2(_)
Pow2(n) == IF n = 0 THEN 1 ELSE 2 * Pow2(n - 1)

Min(a, b) == IF a < b THEN a ELSE b

RECURSIVE BitAnd(_, _)
BitAnd(a, b) ==
    IF a = 0 \/ b = 0 THEN 0
    ELSE (IF a % 2 = 1 /\ b % 2 = 1 THEN 1 ELSE 0) + 2 * BitAnd(a \div 2, b \div 2)

RECURSIVE BitOr(_, _)
BitOr(a, b) ==
    IF a = 0 THEN b
    ELSE IF b = 0 THEN a
    ELSE (IF a % 2 = 1 \/ b % 2 = 1 THEN 1 ELSE 0) + 2 * BitOr(a \div 2, b \div 2)

\* an int of value hi * 2^LimbBits + lo
I64(hi, lo) == [hi |-> hi, lo |-> lo]

IntOf(n) == I64(0, n)

\* int(g) << s for a 7-bit group g: the bits that leave the low limb enter the
\* high one.  readVarInt shifts by at most 7 * (maxBytes - 1) = 28 bits, so bit
\* 63 of the 64-bit int is never reached and no int here is negative.
ShiftLeft(g, s) ==
    IF s < LimbBits
    THEN I64(g \div Pow2(LimbBits - s), (g % Pow2(LimbBits - s)) * Pow2(s))
    ELSE I64(g * Pow2(s - LimbBits), 0)

IntOr(a, b) == I64(BitOr(a.hi, b.hi), BitOr(a.lo, b.lo))

\* a > n, a < n, a != n for a constant n with 0 <= n < 2^LimbBits
IntGreater(a, n) == a.hi > 0 \/ a.lo > n

IntLess(a, n) == a.hi = 0 /\ a.lo < n

IntNotEqual(a, n) == a.hi # 0 \/ a.lo # n

----------------------------------------------------------------------------
(* Byte slices and strings *)

RECURSIVE StripZeros(_, _)
StripZeros(s, z) ==
    IF s # <<>> /\ s[Len(s)] = z THEN StripZeros(SubSeq(s, 1, Len(s) - 1), z) ELSE s

\* make([]byte, n)
MakeBytes(n) == [len |-> n, head |-> <<>>]

\* the slice as a plain sequence
RECURSIVE Fill(_, _)
Fill(n, z) == IF n = 0 THEN <<>> ELSE Append(Fill(n - 1, z), z)

ByteAt(d, k) == IF k <= Len(d.head) THEN d.head[k] ELSE 0

\* a variant of StoreAt that ignores the offset: conn.Read(d) for
\* conn.Read(d[off:])
StoreAtStart(d, off, chunk) ==
    LET old == d.head \o Fill(IF Len(chunk) > Len(d.head)
                                 THEN Len(chunk) - Len(d.head) ELSE 0, 0)
        new == [k \in 1..Len(old) |-> IF k <= Len(chunk) THEN chunk[k] ELSE old[k]]
    IN  [len |-> d.len, head |-> StripZeros(new, 0)]

\* the bytes of chunk stored at positions off+1 .. off+Len(chunk) of d
\* (conn.Read(d[off:]) returning Len(chunk) bytes)
StoreAt(d, off, chunk) ==
    LET old == d.head \o Fill(IF off + Len(chunk) > Len(d.head)
                                 THEN off + Len(chunk) - Len(d.head) ELSE 0, 0)
        new == [k \in 1..Len(old) |->
                   IF k > off /\ k <= off + Len(chunk) THEN chunk[k - off] ELSE old[k]]
    IN  [len |-> d.len, head |-> StripZeros(new, 0)]

\* const hextable = "0123456789abcdef" of encoding/hex
hextable == <<"0", "1", "2", "3", "4", "5", "6", "7",
              "8", "9", "a", "b", "c", "d", "e", "f">>

\* a variant of EncodeToString that encodes the buffer up to its last nonzero
\* byte only
EncodeFilled(d) ==
    [len  |-> 2 * Len(d.head),
     head |-> StripZeros([k \in 1..(2 * Len(d.head)) |->
                            IF k % 2 = 1
                            THEN hextable[(d.head[(k + 1) \div 2] \div 16) + 1]
                            ELSE hextable[(d.head[k \div 2] % 16) + 1]], "0")]

\* hex.EncodeToString: two characters per byte, high nibble first
EncodeToString(d) ==
    [len  |-> 2 * d.len,
     head |-> StripZeros([k \in 1..(2 * Len(d.head)) |->
                            IF k % 2 = 1
                            THEN hextable[(d.head[(k + 1) \div 2] \div 16) + 1]
                            ELSE hextable[(d.head[k \div 2] % 16) + 1]], "0")]

CharAt(s, k) == IF k <= Len(s.head) THEN s.head[k] ELSE "0"

----------------------------------------------------------------------------
(* The peer and the transport *)

\* zgrab2.ScanStatus values and error values
SCAN_SUCCESS == "success"

SCAN_PROTOCOL_ERROR == "protocol-error"

NoError == "nil"

EOF == "EOF"

\* errors target.Open, conn.Write and conn.Read can return
OpenErrors == {"connection refused", "i/o timeout"}

WriteErrors == {"broken pipe"}

ReadErrors == {"connection reset", "i/o timeout"}

\* durations, in seconds, a blocking conn.Read can take
Delays == {0, 3}

\* length prefixes a peer may send: canonical and non-canonical varints of
\* 0, 1, 2, 8, 9, 10, 32800, 32801 and 2^35 - 1, a prefix of five continuation
\* bytes, a prefix cut after a continuation byte, and nothing at all
Prefixes ==
    { <<>>, <<0>>, <<1>>, <<2>>, <<8>>, <<9>>, <<10>>,
      <<128, 0>>, <<137, 0>>, <<129>>,
      <<160, 128, 2>>, <<161, 128, 2>>, <<255, 255, 255, 0>>,
      <<255, 255, 255, 255, 127>>, <<255, 255, 255, 255, 255>> }

\* payload bytes a peer may send, by position
BannerBytes == <<171, 15, 0, 255, 16, 9, 0, 1, 254, 128, 77>>

Payload(n) == [k \in 1..n |-> BannerBytes[((k - 1) % Len(BannerBytes)) + 1]]

\* the payload sizes a peer may send
PayloadLens == {0, 1, 2, 5} \cup (Banner2Len..(Banner2Len + MaxExtra))

\* what a peer sends on receiving a probe: a prefix, payload bytes and
\* possibly the end of the stream
Responses ==
    { [prefix |-> px, payload |-> Payload(n), fin |-> f] :
        px \in Prefixes, n \in PayloadLens, f \in BOOLEAN }

\* the outcomes of conn.Read(b) with len(b) = cap > 0 on a stream socket whose
\* unread bytes are w and whose peer has closed (f) or not: n >= 1 bytes with
\* no error; the last bytes together with, or nothing and, io.EOF; no bytes and
\* a transport error
ReadOutcomes(w, f, cap) ==
    { [n |-> n, err |-> NoError] : n \in 1..Min(cap, Len(w)) }
    \cup (IF f /\ Len(w) <= cap THEN {[n |-> Len(w), err |-> EOF]} ELSE {})
    \cup { [n |-> 0, err |-> e] : e \in ReadErrors }

----------------------------------------------------------------------------
(* State *)

VARIABLES
    pc,          \* where Scan is: "open", "write1", "varint1", "read1",
                 \* "write2", "varint2", "read2", "done" (returned)
    now,         \* the clock, in seconds
    wire,        \* bytes the peer has sent and the scanner has not read
    fin,         \* the peer has closed its side after those bytes
    closed,      \* conn.Close() has run
    i,           \* readVarInt: loop counter
    result,      \* readVarInt: result
    shift,       \* readVarInt: shift
    length,      \* Scan: length
    data,        \* Scan: data
    data2,       \* Scan: data2
    totalRead,   \* Scan: totalRead
    timeout,     \* Scan: the time at which the channel of time.After fires
    readErr,     \* Scan: readErr
    ret,         \* Scan's return values (status, results, err)
    classified,  \* history: the returned status came from TryGetScanStatus
    written,     \* history: the probes written to the connection
    sent,        \* history: the peer's responses
    vbytes,      \* history: the bytes the current readVarInt call has consumed
    decoded,     \* history: the values readVarInt has returned without error
    payloadRead, \* history: the rounds in which a payload conn.Read was issued
    overdue,     \* history: the rounds in which a payload conn.Read returned
                 \* at or after the round's deadline
    sawEOF,      \* history: the rounds in which a payload conn.Read returned
                 \* io.EOF
    offered,     \* history: the unread bytes when readVarInt was last called
    faulted,     \* history: target.Open, conn.Write or conn.Read has returned
                 \* an error other than io.EOF
    ioErr,       \* history: the error value the latest call of target.Open,
                 \* conn.Write or conn.Read returned
    started,     \* history: the time at which the current payload loop began
    opens,       \* history: how many connections target.Open has handed out
    closes,      \* history: how many times conn.Close() has run
    got,         \* history: the payload bytes conn.Read has delivered, by round
    idle         \* history: the rounds in which a payload conn.Read returned
                 \* no bytes and no error

vars == <<pc, now, wire, fin, closed, i, result, shift, length, data, data2,
          totalRead, timeout, readErr, ret, classified, written, sent, vbytes,
          decoded, payloadRead, overdue, sawEOF, offered, faulted, ioErr,
          started, opens, closes, got, idle>>

\* Scanner.probe1, Scanner.probe2: the default "\n" of both flags, unquoted
probe1 == <<10>>

probe2 == <<10>>

NotReturned == [status |-> "pending", results |-> <<>>, err |-> "pending"]

\* the framework's classification helper: a transport error to a coarse status
TryGetScanStatus(e) ==
    CASE e = NoError -> SCAN_SUCCESS
      [] e = "connection refused" -> "connection-refused"
      [] e = "i/o timeout" -> "io-timeout"
      [] OTHER -> "unknown-error"

Init ==
    /\ pc = "open"
    /\ now = 0
    /\ wire = <<>>
    /\ fin = FALSE
    /\ closed = FALSE
    /\ i = 0
    /\ result = IntOf(0)
    /\ shift = 0
    /\ length = IntOf(0)
    /\ data = MakeBytes(0)
    /\ data2 = MakeBytes(0)
    /\ totalRead = 0
    /\ timeout = 0
    /\ readErr = NoError
    /\ ret = NotReturned
    /\ classified = FALSE
    /\ written = <<>>
    /\ sent = <<>>
    /\ vbytes = <<>>
    /\ decoded = <<>>
    /\ payloadRead = {}
    /\ overdue = {}
    /\ sawEOF = {}
    /\ offered = <<>>
    /\ faulted = FALSE
    /\ ioErr = NoError
    /\ started = 0
    /\ opens = 0
    /\ closes = 0
    /\ got = <<<<>>, <<>>>>
    /\ idle = {}

----------------------------------------------------------------------------
(* readVarInt *)

\* a variant of VarIntGroup that keeps the continuation bit
VarIntGroupUnmasked(b) == b

\* b[0] & 0x7F
VarIntGroup(b) == BitAnd(b, 127)

\* b[0] & 0x80 == 0
VarIntLast(b) == BitAnd(b, 128) = 0

\* result |= int(b[0]&0x7F) << shift
VarIntAccumulate(res, b, sh) == IntOr(res, ShiftLeft(VarIntGroup(b), sh))

\* a variant of VarIntNextShift for whole bytes
VarIntNextShiftByte(sh) == sh + 8

\* shift += 7
VarIntNextShift(sh) == sh + 7

\* a variant of VarIntBuffer with room for two bytes
VarIntBufferOfTwo == 1 + 1

\* var b [1]byte: the capacity of the buffer of each read
VarIntBuffer == 1

\* a variant of VarIntLoopGoesOn that allows a sixth iteration
VarIntLoopGoesOnInclusive(k) == k <= maxBytes

\* i < maxBytes after i++
VarIntLoopGoesOn(k) == k < maxBytes

----------------------------------------------------------------------------
(* Scanner.Scan *)

\* a variant of LengthTooLong that lets 32801 through
LengthTooLongOffByOne(len) == IntGreater(len, MaxBannerLen + 1)

\* if length > 32800
LengthTooLong(len) == IntGreater(len, MaxBannerLen)

\* if length < 1
LengthTooShort(len) == IntLess(len, MinBannerLen)

\* a variant of LengthMismatch that rejects only the lengths below 9
LengthBelowRequired(len) == IntLess(len, Banner2Len)

\* if length != 9
LengthMismatch(len) == IntNotEqual(len, Banner2Len)

\* a variant of TimedOut for a loop that never looks at the deadline
TimedOutNever(t, deadline) == FALSE

\* case <-timeout: the channel of time.After has fired
TimedOut(t, deadline) == t >= deadline

\* a variant of After that counts the five seconds from the start of the scan
AfterScanStart(t) == ReadTimeout

\* timeout := time.After(5 * time.Second)
After(t) == t + ReadTimeout

\* a variant of BufferTail that offers the whole buffer to every read
BufferWhole(len, total) == len

\* data[totalRead:] as the buffer of a read: its capacity
BufferTail(len, total) == len - total

\* for totalRead < length
ReadLoopGoesOn(total, len) == total < len

\* results.Banner1, results.Banner2 and &results
MakeResults(d, d2) ==
    << [Banner1 |-> EncodeToString(d), Banner2 |-> EncodeToString(d2)] >>

\* a variant of ResultNil: a failing return that hands out &results as built
\* from the buffers read so far
ResultSoFar == MakeResults(data, data2)

\* the nil result of every failing return
ResultNil == <<>>

\* a variant of Return that starts the exchange again instead of returning
RetryInsteadOfReturn(st, res, e) ==
    /\ pc' = "write1"
    /\ UNCHANGED <<ret, closed, closes>>

\* a variant of Return without the deferred conn.Close()
ReturnLeavingOpen(st, res, e) ==
    /\ ret' = [status |-> st, results |-> res, err |-> e]
    /\ pc' = "done"
    /\ UNCHANGED <<closed, closes>>

\* return st, res, e, with the deferred conn.Close()
Return(st, res, e) ==
    /\ ret' = [status |-> st, results |-> res, err |-> e]
    /\ pc' = "done"
    /\ closed' = TRUE
    /\ closes' = closes + 1

\* return zgrab2.SCAN_PROTOCOL_ERROR, nil, errors.New(msg)
ReturnProtocolError(msg) ==
    /\ Return(SCAN_PROTOCOL_ERROR, ResultNil, msg)
    /\ classified' = FALSE

\* a variant of ReturnClassified that reports every failure as a protocol error
ReturnUnclassified(e) ==
    /\ Return(SCAN_PROTOCOL_ERROR, ResultNil, e)
    /\ classified' = FALSE

\* return zgrab2.TryGetScanStatus(e), nil, e
ReturnClassified(e) ==
    /\ Return(TryGetScanStatus(e), ResultNil, e)
    /\ classified' = TRUE

\* conn, err = target.Open(...)
Open ==
    /\ pc = "open"
    /\ \/ /\ pc' = "write1"
          /\ opens' = opens + 1
          /\ ioErr' = NoError
          /\ UNCHANGED <<ret, classified, faulted>>
       \/ \E e \in OpenErrors :
            \* returned before the defer: there is no connection to close
            /\ ret' = [status |-> TryGetScanStatus(e), results |-> ResultNil,
                       err |-> e]
            /\ classified' = TRUE
            /\ pc' = "done"
            /\ faulted' = TRUE
            /\ ioErr' = e
            /\ opens' = opens
    /\ UNCHANGED <<now, wire, fin, closed, i, result, shift, length, data, data2,
                   totalRead, timeout, readErr, written, sent, vbytes, decoded,
                   payloadRead, overdue, sawEOF, offered, started, closes, got,
                   idle>>

\* _, err = conn.Write(probe), and on success the call of readVarInt up to
\* its first conn.Read; the peer answers a probe it receives unless it has
\* closed its side, with one of the responses of menu
WriteProbeFrom(r, probe, menu) ==
    /\ pc = IF r = 1 THEN "write1" ELSE "write2"
    /\ \/ \E e \in WriteErrors :
            /\ ReturnClassified(e)
            /\ faulted' = TRUE
            /\ ioErr' = e
            /\ UNCHANGED <<wire, fin, i, result, shift, written, sent, vbytes,
                           offered>>
       \/ /\ written' = Append(written, probe)
          /\ ioErr' = NoError
          /\ IF fin
             THEN UNCHANGED <<wire, fin, sent>>
             ELSE \E resp \in menu :
                    /\ wire' = wire \o resp.prefix \o resp.payload
                    /\ fin' = resp.fin
                    /\ sent' = Append(sent, resp)
          /\ offered' = wire'
          /\ faulted' = faulted
          /\ pc' = IF r = 1 THEN "varint1" ELSE "varint2"
          /\ i' = 0
          /\ result' = IntOf(0)
          /\ shift' = 0
          /\ vbytes' = <<>>
          /\ UNCHANGED <<ret, classified, closed, closes>>
    /\ UNCHANGED <<now, length, data, data2, totalRead, timeout, readErr, decoded,
                   payloadRead, overdue, sawEOF, started, opens, got, idle>>

WriteProbe(r, probe) == WriteProbeFrom(r, probe, Responses)

WriteProbe1 == WriteProbe(1, probe1)

WriteProbe2 == WriteProbe(2, probe2)

\* a variant of ReadFailed that takes io.EOF for a failure as well
ReadFailedOrEnded(err) == err # NoError

\* if err != nil && err != io.EOF
ReadFailed(err) == err # NoError /\ err # EOF

\* if err == io.EOF
IsEOF(err) == err = EOF

\* var b [1]byte after the bytes bs have been read into it one by one: a read
\* that delivers nothing leaves it as it was
Held(bs) == IF bs = <<>> THEN 0 ELSE bs[Len(bs)]

\* a conn.Read that returns no bytes and no error, which io.Reader allows
ZeroByteRead == {[n |-> 0, err |-> NoError]}

\* a read that returns at once can always be followed; one that takes d
\* seconds from time t is followed up to the time MaxTime
WithinClock(t, d) == d = 0 \/ t + d <= MaxTime

\* in a payload loop the clock is followed up to the loop's deadline as well
WithinDeadline(t, d, deadline) == WithinClock(t, d) \/ t < deadline

\* Scan from the return of readVarInt with value v at time t in round 1 to the
\* first iteration of readLoop
Validate1(v, t) ==
    /\ length' = v
    /\ decoded' = Append(decoded, v)
    /\ IF LengthTooLong(v)
       THEN /\ ReturnProtocolError("banner too long")
            /\ UNCHANGED <<data, totalRead, timeout, started>>
       ELSE IF LengthTooShort(v)
       THEN /\ ReturnProtocolError("zero/negative banner length")
            /\ UNCHANGED <<data, totalRead, timeout, started>>
       ELSE /\ data' = MakeBytes(v.lo)
            /\ totalRead' = 0
            /\ timeout' = After(t)
            /\ started' = t
            /\ pc' = "read1"
            /\ UNCHANGED <<ret, classified, closed, closes>>
    /\ UNCHANGED data2

\* the same in round 2, to the first iteration of readLoop2
Validate2(v, t) ==
    /\ length' = v
    /\ decoded' = Append(decoded, v)
    /\ IF LengthMismatch(v)
       THEN /\ ReturnProtocolError("banner length mismatch")
            /\ UNCHANGED <<data2, totalRead, timeout, started>>
       ELSE /\ data2' = MakeBytes(v.lo)
            /\ totalRead' = 0
            /\ timeout' = After(t)
            /\ started' = t
            /\ pc' = "read2"
            /\ UNCHANGED <<ret, classified, closed, closes>>
    /\ UNCHANGED data

\* one iteration of the loop of readVarInt: a conn.Read of one byte that takes
\* d seconds, then the rest of the iteration and, when readVarInt returns,
\* Scan up to its next read or return; more are outcomes of the read beyond
\* those of a stream socket
VarIntReadFrom(r, more) ==
    /\ pc = IF r = 1 THEN "varint1" ELSE "varint2"
    /\ \E d \in Delays, o \in ReadOutcomes(wire, fin, VarIntBuffer) \cup more :
         /\ WithinClock(now, d)
         /\ now' = now + d
         /\ wire' = SubSeq(wire, o.n + 1, Len(wire))
         /\ faulted' = (faulted \/ o.err \in ReadErrors)
         /\ ioErr' = o.err
         /\ vbytes' = vbytes \o SubSeq(wire, 1, o.n)
         /\ IF o.err # NoError
            THEN \* return 0, err; and Scan: return TryGetScanStatus(readErr), nil, readErr
                 /\ readErr' = o.err
                 /\ ReturnClassified(o.err)
                 /\ UNCHANGED <<i, result, shift, length, data, data2, totalRead,
                                timeout, decoded, started>>
            ELSE LET b == Held(vbytes')
                     res == VarIntAccumulate(result, b, shift)
                 IN  /\ result' = res
                     /\ IF VarIntLast(b)
                        THEN \* return result, nil
                             /\ UNCHANGED <<i, shift>>
                             /\ readErr' = NoError
                             /\ IF r = 1 THEN Validate1(res, now + d)
                                         ELSE Validate2(res, now + d)
                        ELSE /\ shift' = VarIntNextShift(shift)
                             /\ i' = i + 1
                             /\ IF VarIntLoopGoesOn(i + 1)
                                THEN UNCHANGED <<pc, ret, classified, closed, closes,
                                                 readErr, length, data, data2,
                                                 totalRead, timeout, decoded,
                                                 started>>
                                ELSE \* return 0, fmt.Errorf("varint too long")
                                     /\ readErr' = "varint too long"
                                     /\ ReturnClassified("varint too long")
                                     /\ UNCHANGED <<length, data, data2, totalRead,
                                                    timeout, decoded, started>>
    /\ UNCHANGED <<fin, written, sent, payloadRead, overdue, sawEOF, offered, opens,
                   got, idle>>

VarIntRead(r) == VarIntReadFrom(r, {})

VarIntRead1 == VarIntRead(1)

VarIntRead2 == VarIntRead(2)

\* one iteration of readLoop (r = 1) or readLoop2 (r = 2): the select, and in
\* its default case a conn.Read into the tail of the buffer that takes d
\* seconds; when the loop ends, Scan up to its next write or return; more are
\* outcomes of the read beyond those of a stream socket
PayloadReadFrom(r, more) ==
    /\ pc = IF r = 1 THEN "read1" ELSE "read2"
    /\ IF TimedOut(now, timeout)
       THEN /\ ReturnProtocolError("read timeout")
            /\ UNCHANGED <<now, wire, data, data2, totalRead, payloadRead, overdue,
                           sawEOF, faulted, ioErr, got, idle>>
       ELSE \E d \in Delays,
               o \in ReadOutcomes(wire, fin, BufferTail(length.lo, totalRead)) \cup more :
              /\ WithinDeadline(now, d, timeout)
              /\ now' = now + d
              /\ payloadRead' = payloadRead \cup {r}
              /\ overdue' = IF now + d >= timeout THEN overdue \cup {r} ELSE overdue
              /\ sawEOF' = IF o.err = EOF THEN sawEOF \cup {r} ELSE sawEOF
              /\ idle' = IF o.n = 0 /\ o.err = NoError THEN idle \cup {r} ELSE idle
              /\ faulted' = (faulted \/ o.err \in ReadErrors)
              /\ ioErr' = o.err
              /\ IF ReadFailed(o.err)
                 THEN /\ ReturnClassified(o.err)
                      /\ UNCHANGED <<wire, data, data2, totalRead, got>>
                 ELSE LET chunk == SubSeq(wire, 1, o.n)
                          d1 == IF r = 1 THEN StoreAt(data, totalRead, chunk) ELSE data
                          d2 == IF r = 2 THEN StoreAt(data2, totalRead, chunk) ELSE data2
                          total == totalRead + o.n
                      IN  /\ wire' = SubSeq(wire, o.n + 1, Len(wire))
                          /\ got' = [got EXCEPT ![r] = @ \o chunk]
                          /\ data' = d1
                          /\ data2' = d2
                          /\ totalRead' = total
                          /\ IF ~IsEOF(o.err) /\ ReadLoopGoesOn(total, length.lo)
                             THEN UNCHANGED <<pc, ret, classified, closed, closes>>
                             ELSE IF r = 1
                             THEN /\ pc' = "write2"
                                  /\ UNCHANGED <<ret, classified, closed, closes>>
                             ELSE /\ Return(SCAN_SUCCESS, MakeResults(d1, d2), NoError)
                                  /\ classified' = FALSE
    /\ UNCHANGED <<fin, i, result, shift, length, timeout, readErr, written, sent,
                   vbytes, decoded, offered, started, opens>>

PayloadRead(r) == PayloadReadFrom(r, {})

PayloadRead1 == PayloadRead(1)

PayloadRead2 == PayloadRead(2)

Next ==
    \/ Open
    \/ WriteProbe1
    \/ VarIntRead1
    \/ PayloadRead1
    \/ WriteProbe2
    \/ VarIntRead2
    \/ PayloadRead2

Spec == Init /\ [][Next]_vars

----------------------------------------------------------------------------
(* readVarInt alone, on every short stream over a few byte values *)

\* the streams are at most this long
MaxStream == 6

\* byte values with no, all and only the continuation bit set
StreamBytes == {0, 127, 128, 255}

RECURSIVE Streams(_)
Streams(n) ==
    IF n = 0 THEN {<<>>}
    ELSE LET shorter == Streams(n - 1)
         IN  shorter \cup {Append(bs, b) : bs \in {x \in shorter : Len(x) = n - 1},
                                           b \in StreamBytes}

\* Scan after target.Open and conn.Write(probe1) have succeeded, at the call
\* of readVarInt, the peer having sent the stream bs and kept its side open
InitVarInt ==
    /\ pc = "varint1"
    /\ now = 0
    /\ wire \in Streams(MaxStream) \ {<<>>}
    /\ fin = FALSE
    /\ closed = FALSE
    /\ i = 0
    /\ result = IntOf(0)
    /\ shift = 0
    /\ length = IntOf(0)
    /\ data = MakeBytes(0)
    /\ data2 = MakeBytes(0)
    /\ totalRead = 0
    /\ timeout = 0
    /\ readErr = NoError
    /\ ret = NotReturned
    /\ classified = FALSE
    /\ written = <<probe1>>
    /\ sent = <<[prefix |-> wire, payload |-> <<>>, fin |-> FALSE]>>
    /\ vbytes = <<>>
    /\ decoded = <<>>
    /\ payloadRead = {}
    /\ overdue = {}
    /\ sawEOF = {}
    /\ offered = wire
    /\ faulted = FALSE
    /\ ioErr = NoError
    /\ started = 0
    /\ opens = 1
    /\ closes = 0
    /\ got = <<<<>>, <<>>>>
    /\ idle = {}

NextVarInt == VarIntRead1

SpecVarInt == InitVarInt /\ [][NextVarInt]_vars

----------------------------------------------------------------------------
(* Vocabulary of the properties *)

\* the value of a lowercase hexadecimal digit, -1 for any other character
DigitVal(c) ==
    CASE c = "0" -> 0 [] c = "1" -> 1 [] c = "2" -> 2 [] c = "3" -> 3
      [] c = "4" -> 4 [] c = "5" -> 5 [] c = "6" -> 6 [] c = "7" -> 7
      [] c = "8" -> 8 [] c = "9" -> 9 [] c = "a" -> 10 [] c = "b" -> 11
      [] c = "c" -> 12 [] c = "d" -> 13 [] c = "e" -> 14 [] c = "f" -> 15
      [] OTHER -> -1

\* the string s is the lowercase hexadecimal text of exactly the bytes bs
IsHexOf(s, bs) ==
    /\ s.len = 2 * Len(bs)
    /\ Len(s.head) <= s.len
    /\ \A k \in 1..Len(bs) :
         /\ DigitVal(CharAt(s, 2 * k - 1)) >= 0
         /\ DigitVal(CharAt(s, 2 * k)) >= 0
         /\ 16 * DigitVal(CharAt(s, 2 * k - 1)) + DigitVal(CharAt(s, 2 * k)) = bs[k]

\* bs is a complete varint: 1 to 5 bytes, the 0x80 bit set in all but the last
IsVarInt(bs) ==
    /\ Len(bs) \in 1..5
    /\ \A k \in 1..(Len(bs) - 1) : bs[k] >= 128
    /\ bs[Len(bs)] < 128

\* sum over k of (bs[k] mod 128) * 128^(k-1), the first four groups in the low
\* limb and the fifth in the high one
RECURSIVE GroupSum(_, _)
GroupSum(bs, k) ==
    IF k > Len(bs) \/ k > 4 THEN 0 ELSE (bs[k] % 128) + 128 * GroupSum(bs, k + 1)

VarIntValue(bs) == I64(IF Len(bs) >= 5 THEN bs[5] % 128 ELSE 0, GroupSum(bs, 1))

\* the peer answered probe r with a complete varint of value n and then
\* exactly n payload bytes
AnsweredExactly(r, n) ==
    /\ Len(sent) >= r
    /\ IsVarInt(sent[r].prefix)
    /\ VarIntValue(sent[r].prefix) = IntOf(n)
    /\ Len(sent[r].payload) = n

Returned == pc = "done"

----------------------------------------------------------------------------
(* Properties *)

\* the peer of the end-to-end scenario: both answers exact, no transport error,
\* every payload read back before its round's deadline
ExactPeer ==
    /\ Len(sent) = 2
    /\ Len(sent[1].payload) \in MinBannerLen..MaxBannerLen
    /\ AnsweredExactly(1, Len(sent[1].payload))
    /\ AnsweredExactly(2, Banner2Len)
    /\ ~faulted
    /\ overdue = {}
    /\ sawEOF = {}

\* C1: when the peer answers probe1 with a varint L1 in 1..32800 and exactly L1
\* bytes and probe2 with the varint 9 and exactly 9 bytes, every read returning
\* before its deadline and without transport error, Scan returns success, a nil
\* error and a result whose banners are the lowercase hex of exactly those
\* bytes, however the reads split them.
C1_EndToEndSuccess ==
    (Returned /\ ExactPeer) =>
        /\ ret.status = SCAN_SUCCESS
        /\ ret.err = NoError
        /\ Len(ret.results) = 1
        /\ IsHexOf(ret.results[1].Banner1, sent[1].payload)
        /\ IsHexOf(ret.results[1].Banner2, sent[2].payload)

\* an exact exchange with a 10-byte first banner that has returned
C1_Witness ==
    /\ Returned
    /\ ExactPeer
    /\ AnsweredExactly(1, 10)
    /\ ret.status = SCAN_SUCCESS

\* C2: when round 1 ends on end-of-stream with k bytes read, 0 < k < the
\* declared length, no error is raised, the scan goes on to write probe2, and
\* the round-1 buffer (hence banner1) holds exactly those k bytes.
C2_ShortReadBufferHasOnlyReceived ==
    /\ (pc = "write2" /\ 0 < totalRead /\ totalRead < length.lo) =>
          (ret = NotReturned /\ data.len = totalRead)
    /\ (Returned /\ ret.status = SCAN_SUCCESS /\ IsVarInt(sent[1].prefix)
          /\ sent[1].fin /\ sent[1].payload # <<>>
          /\ IntGreater(VarIntValue(sent[1].prefix), Len(sent[1].payload))) =>
          IsHexOf(ret.results[1].Banner1, sent[1].payload)

\* C3: the round-1 read phase is entered only with 1 <= length <= 32800; a
\* decoded length of 0 fails with the protocol-error status and the
\* zero/negative error, one above 32800 with the protocol-error status and the
\* too-long error, in both cases with no payload read issued, probe2 not
\* written and no result.
C3_Round1LengthValidation ==
    /\ (pc = "read1" \/ 1 \in payloadRead) =>
          /\ decoded[1].hi = 0
          /\ decoded[1].lo \in MinBannerLen..MaxBannerLen
          /\ data.len = decoded[1].lo
    /\ (Len(decoded) >= 1 /\ decoded[1].hi = 0 /\ decoded[1].lo < MinBannerLen) =>
          /\ Returned
          /\ ret = [status |-> SCAN_PROTOCOL_ERROR, results |-> <<>>,
                    err |-> "zero/negative banner length"]
          /\ payloadRead = {}
          /\ written = <<probe1>>
    /\ (Len(decoded) >= 1 /\ (decoded[1].hi > 0 \/ decoded[1].lo > MaxBannerLen)) =>
          /\ Returned
          /\ ret = [status |-> SCAN_PROTOCOL_ERROR, results |-> <<>>,
                    err |-> "banner too long"]
          /\ payloadRead = {}
          /\ written = <<probe1>>

\* a scan that has decoded the length 32801 in round 1 and has returned
C3_Witness ==
    /\ Returned
    /\ decoded = <<IntOf(MaxBannerLen + 1)>>
    /\ ret.err = "banner too long"

\* C4: the round-2 read phase is entered only with length = 9; any other
\* decoded length fails with the protocol-error status and the length-mismatch
\* error, whatever payload the peer sent, with no round-2 payload read issued
\* and no result, banner1 included.
C4_Round2LengthValidation ==
    /\ (pc = "read2" \/ 2 \in payloadRead) =>
          /\ decoded[2] = IntOf(Banner2Len)
          /\ data2.len = Banner2Len
    /\ (Len(decoded) = 2 /\ decoded[2] # IntOf(Banner2Len)) =>
          /\ Returned
          /\ ret = [status |-> SCAN_PROTOCOL_ERROR, results |-> <<>>,
                    err |-> "banner length mismatch"]
          /\ 2 \notin payloadRead

\* a scan that has decoded the length 8 in round 2, the peer having sent 9
\* payload bytes after it, and has returned
C4_Witness ==
    /\ Returned
    /\ Len(decoded) = 2
    /\ decoded[2] = IntOf(8)
    /\ Len(sent) = 2
    /\ sent[2].prefix = <<8>>
    /\ Len(sent[2].payload) = Banner2Len
    /\ ret.err = "banner length mismatch"

\* the round readVarInt was last called in, and the bytes already copied into
\* that round's buffer
Round == Len(written)

Received == [k \in 1..totalRead |-> ByteAt(IF pc = "read1" THEN data ELSE data2, k)]

ReadFailures == ReadErrors \cup {EOF}

\* C5: when the bytes readVarInt has read, each without error, are a complete
\* varint of 1 to 5 bytes, it has returned, with no error, the sum of their
\* 7-bit groups weighted least-significant first; a single byte below 128 is
\* returned unchanged.
C5_VarIntValue ==
    (Round >= 1 /\ IsVarInt(vbytes) /\ readErr \notin ReadFailures) =>
        /\ readErr = NoError
        /\ Len(decoded) = Round
        /\ decoded[Round] = VarIntValue(vbytes)
        /\ length = decoded[Round]
        /\ (Len(vbytes) = 1 => decoded[Round] = IntOf(vbytes[1]))

\* readVarInt has returned 2^35 - 1 for the five bytes ff ff ff ff 7f
C5_Witness ==
    /\ vbytes = <<255, 255, 255, 255, 127>>
    /\ decoded = <<I64(127, Pow2(LimbBits) - 1)>>
    /\ readErr = NoError

\* C6: readVarInt takes the bytes of the stream one per read and in order, and
\* stops at the first byte whose 0x80 bit is clear: after a successful decode
\* the bytes taken are exactly the varint (one byte when the stream begins with
\* a byte below 128), and the payload reads of the round take the stream from
\* the byte after it.
C6_VarIntConsumption ==
    /\ (pc \in {"varint1", "varint2"}) =>
          /\ vbytes \o wire = offered
          /\ Len(vbytes) = i
          /\ \A k \in 1..Len(vbytes) : vbytes[k] >= 128
    /\ (Round >= 1 /\ Len(decoded) = Round) =>
          /\ IsVarInt(vbytes)
          /\ (offered[1] < 128) => (Len(vbytes) = 1 /\ decoded[Round] = IntOf(offered[1]))
          /\ (pc \in {"read1", "read2"}) => vbytes \o Received \o wire = offered
          /\ (Returned /\ Round \notin payloadRead) => vbytes \o wire = offered

\* round 2 is reading its payload: the two-byte varint 89 00 was taken from a
\* stream that began with bytes left unread by round 1, and payload bytes have
\* been copied
C6_Witness ==
    /\ pc = "read2"
    /\ vbytes = <<137, 0>>
    /\ totalRead >= 2
    /\ wire # <<>>

\* C7: readVarInt takes at most 5 bytes from the stream; when the fifth byte
\* read still has the continuation bit set it returns the varint-too-long
\* error and no value, an error no failing read returns, and Scan returns
\* that error with no result.
C7_VarIntBound ==
    /\ Len(vbytes) <= maxBytes
    /\ i <= maxBytes
    /\ (Len(vbytes) = maxBytes /\ (\A k \in 1..maxBytes : vbytes[k] >= 128)
          /\ readErr \notin ReadFailures) =>
          /\ readErr = "varint too long"
          /\ Len(decoded) = Round - 1
          /\ Returned
          /\ ret.err = readErr
          /\ ret.results = <<>>
    /\ "varint too long" \notin ReadFailures
    /\ (readErr = "varint too long") =>
          (Len(vbytes) = maxBytes /\ \A k \in 1..maxBytes : vbytes[k] >= 128)

\* readVarInt has failed on five continuation bytes with a sixth left unread
C7_Witness ==
    /\ Returned
    /\ readErr = "varint too long"
    /\ Len(vbytes) = maxBytes
    /\ Len(wire) = 1
    /\ decoded = <<>>

\* the errors of the protocol and structural failures of a scan
ProtocolFailures ==
    {"varint too long", "banner too long", "zero/negative banner length",
     "banner length mismatch", "read timeout"}

\* C8: every protocol or structural failure (malformed varint, round-1 length
\* out of range, round-2 length not 9, read timeout) is returned with the
\* protocol-error status, never with a status from the classification helper.
C8_ProtocolFailuresHaveProtocolStatus ==
    (Returned /\ ret.err \in ProtocolFailures) =>
        (ret.status = SCAN_PROTOCOL_ERROR /\ ~classified)

\* C9: when a round's deadline passes while its read phase has neither the
\* declared number of bytes nor an end-of-stream, the scan fails with the
\* read-timeout error, the protocol-error status and no result (stated for the
\* scans in which no transport error occurs and that round sees no
\* end-of-stream at all).
C9_ReadTimeoutAfterDeadline ==
    (overdue \ sawEOF # {} /\ ~faulted) =>
        \/ pc \in {"read1", "read2"}
        \/ /\ Returned
           /\ ret = [status |-> SCAN_PROTOCOL_ERROR, results |-> <<>>,
                     err |-> "read timeout"]

\* C10: a returned scan has a result if and only if its status is success, and
\* if and only if its error is nil; before it returns nothing is handed out,
\* and a failure after round 1 has completed hands out no banner1.
C10_NoPartialResult ==
    /\ Returned =>
          /\ (ret.results # <<>>) <=> (ret.status = SCAN_SUCCESS)
          /\ (ret.status = SCAN_SUCCESS) <=> (ret.err = NoError)
          /\ (ret.results # <<>>) => (Len(written) = 2 /\ payloadRead = {1, 2})
    /\ ~Returned => ret = NotReturned

\* a scan that read a first banner and then failed on the round-2 length
C10_Witness ==
    /\ Returned
    /\ data.head # <<>>
    /\ ret.err = "banner length mismatch"
    /\ ret.results = <<>>

----------------------------------------------------------------------------
(* The order of the exchange *)

\* the position of a step of Scan in the exchange
Rank(p) ==
    CASE p = "open" -> 0
      [] p = "write1" -> 1
      [] p = "varint1" -> 2
      [] p = "read1" -> 3
      [] p = "write2" -> 4
      [] p = "varint2" -> 5
      [] p = "read2" -> 6
      [] p = "done" -> 7

\* the steps at which Scan has a conn.Read outstanding
Reading == {"varint1", "read1", "varint2", "read2"}

\* what has been written and read so far agrees with the position of Scan
InOrder ==
    /\ Len(written) <= 2
    /\ written = SubSeq(<<probe1, probe2>>, 1, Len(written))
    /\ pc \in {"open", "write1"} => written = <<>>
    /\ pc \in {"varint1", "read1", "write2"} => Len(written) = 1
    /\ pc \in {"varint2", "read2"} => Len(written) = 2
    /\ (vbytes # <<>> \/ decoded # <<>> \/ payloadRead # {}) => Len(written) >= 1
    /\ Len(written) = 2 => (1 \in payloadRead /\ Len(decoded) >= 1)
    /\ 2 \in payloadRead => Len(decoded) = 2

\* a step of Scan goes to the next position or to the return, or stays in a
\* loop of reads; only the two writing steps write, only the reading steps
\* read, and nothing follows the return
StepInOrder ==
    /\ pc # "done"
    /\ pc' = pc \/ pc' = "done" \/ Rank(pc') = Rank(pc) + 1
    /\ pc' = pc => pc \in Reading
    /\ written' # written =>
          /\ pc \in {"write1", "write2"}
          /\ Len(written') = Len(written) + 1
    /\ (wire' # wire /\ Len(wire') <= Len(wire)) => pc \in Reading
    /\ now' # now => pc \in Reading

\* C11: the steps of a scan occur only in the order open, write probe1, decode
\* length 1, read payload 1, write probe2, decode length 2, read payload 2,
\* return; each probe is written once, probe1 before any read and probe2 after
\* the first payload loop has ended, and nothing is read or written after the
\* return.
C11_ExchangeOrder == [] InOrder /\ [][StepInOrder]_vars

\* a scan that went through every step and returned success
C11_Witness ==
    /\ Returned
    /\ ret.status = SCAN_SUCCESS
    /\ written = <<probe1, probe2>>
    /\ Len(decoded) = 2
    /\ payloadRead = {1, 2}

----------------------------------------------------------------------------
(* End of stream and transport errors *)

\* the step in which a payload conn.Read returns io.EOF ends the loop and goes
\* on: to the write of probe2 in round 1, to the successful return in round 2
EOFEndsPhase ==
    sawEOF' # sawEOF =>
        IF pc = "read1"
        THEN /\ pc' = "write2"
             /\ ret' = NotReturned
        ELSE /\ pc = "read2"
             /\ pc' = "done"
             /\ ret'.status = SCAN_SUCCESS
             /\ ret'.err = NoError
             /\ ret'.results # <<>>

\* C12: in either payload loop a read that returns end-of-stream ends the loop
\* without an error and the scan goes on, also when it is the first read of
\* the loop and delivered nothing; the only end-of-stream a scan returns as
\* its error is one readVarInt met.
C12_EOFLeniency ==
    /\ [][EOFEndsPhase]_vars
    /\ []((Returned /\ ret.err = EOF) => readErr = EOF)

\* the first read of round 1 returned nothing but end-of-stream, and Scan is
\* about to write probe2
C12_Witness ==
    /\ pc = "write2"
    /\ 1 \in sawEOF
    /\ got[1] = <<>>
    /\ totalRead = 0

\* the latest call on the connection returned an error that is not the
\* end-of-stream of a payload read
TransportFailure ==
    /\ ioErr # NoError
    /\ ~(ioErr = EOF /\ readErr = NoError /\ Round \in sawEOF)

\* C13: when target.Open, a conn.Write, a conn.Read of readVarInt (also with
\* end-of-stream) or a conn.Read of a payload loop (except with end-of-stream)
\* returns an error, Scan has returned that same error value with a nil result
\* and the status of the classification helper, and nothing is read or written
\* after it.
C13_TransportFailuresAbort ==
    /\ [](TransportFailure =>
            /\ Returned
            /\ classified
            /\ ret = [status |-> TryGetScanStatus(ioErr), results |-> <<>>,
                      err |-> ioErr])
    /\ [](faulted => (Returned /\ ioErr \in OpenErrors \cup WriteErrors \cup ReadErrors))
    /\ [][~Returned]_vars

\* end-of-stream while readVarInt fetched the length prefix of round 2
C13_Witness ==
    /\ Returned
    /\ Len(written) = 2
    /\ Len(decoded) = 1
    /\ readErr = EOF
    /\ ret = [status |-> TryGetScanStatus(EOF), results |-> <<>>, err |-> EOF]

----------------------------------------------------------------------------
(* Deadlines *)

\* C14: the deadline of each payload loop lies five seconds after the time at
\* which that loop began, whatever time the scan has spent before; a read
\* timeout is returned only when five seconds have passed since the loop
\* began and a read of that loop has returned at or after its deadline.
C14_DeadlinePerRound ==
    /\ pc \in {"read1", "read2"} => timeout = started + ReadTimeout
    /\ (Returned /\ ret.err = "read timeout") =>
          /\ timeout = started + ReadTimeout
          /\ now >= started + ReadTimeout
          /\ Round \in overdue

\* a successful scan that took more than five seconds in all, its second
\* payload loop having begun after the first deadline had passed
C14_Witness ==
    /\ Returned
    /\ ret.status = SCAN_SUCCESS
    /\ overdue = {}
    /\ started > ReadTimeout
    /\ now > started

----------------------------------------------------------------------------
(* The connection *)

\* C15: Scan opens at most one connection; a connection it has opened is
\* closed once, when Scan returns, on every way out, and nothing is read,
\* written or opened after the close; when target.Open fails nothing is read,
\* written or closed.
C15_ConnectionRelease ==
    /\ [](opens <= 1 /\ closes <= opens)
    /\ [](closed <=> closes = 1)
    /\ [](Returned => closes = opens)
    /\ [](~Returned => closes = 0)
    /\ [](opens = 0 =>
            /\ written = <<>> /\ sent = <<>> /\ wire = <<>>
            /\ vbytes = <<>> /\ payloadRead = {} /\ now = 0)
    /\ [][closes = 0 /\ (opens' # opens => pc = "open")]_vars

\* a scan that failed on a read timeout in its second payload loop and closed
\* its connection
C15_Witness ==
    /\ Returned
    /\ ret.err = "read timeout"
    /\ Len(written) = 2
    /\ opens = 1
    /\ closes = 1

----------------------------------------------------------------------------
(* The range of a decoded length *)

\* an int of the code that lies in 0 .. 2^35 - 1
InVarIntRange(n) ==
    /\ n.hi \in 0..(Pow2(7) - 1)
    /\ n.lo \in 0..(Pow2(LimbBits) - 1)

\* C17: every value readVarInt returns without error lies in 0 .. 2^35 - 1;
\* the round-1 failure "zero/negative banner length" is returned exactly for
\* the decoded value 0, and the bytes 0x80 0x00 decode to 0 and are rejected
\* in that way.
C17_DecodedRange ==
    /\ \A k \in 1..Len(decoded) : InVarIntRange(decoded[k])
    /\ (Returned /\ ret.err = "zero/negative banner length") =>
          (Len(decoded) = 1 /\ decoded[1] = IntOf(0))
    /\ (Len(decoded) >= 1 /\ decoded[1] = IntOf(0)) =>
          (Returned /\ ret.err = "zero/negative banner length")
    /\ (vbytes = <<128, 0>> /\ Round = 1 /\ Len(decoded) = 1) =>
          decoded[1] = IntOf(0)

\* the bytes 0x80 0x00 were decoded and the length rejected as zero
C17_Witness ==
    /\ Returned
    /\ vbytes = <<128, 0>>
    /\ decoded = <<IntOf(0)>>
    /\ ret.err = "zero/negative banner length"

----------------------------------------------------------------------------
(* The payload loops *)

\* the buffer of the payload loop of round r
BufferOf(r, d1, d2) == IF r = 1 THEN d1 ELSE d2

\* totalRead stays within the declared length, a payload loop reads only while
\* the buffer has room, and a round takes no more from the stream than its
\* length prefix and the declared number of payload bytes
WithinBuffer ==
    /\ pc \in {"read1", "read2"} =>
          (length.hi = 0 /\ 0 <= totalRead /\ totalRead < length.lo)
    /\ Round \in payloadRead =>
          /\ 0 <= totalRead /\ totalRead <= length.lo
          /\ Len(got[Round]) = totalRead
    /\ \A r \in payloadRead : Len(got[r]) <= decoded[r].lo
    /\ pc = "write2" => offered = vbytes \o got[1] \o wire

\* a read of a payload loop takes at most as many bytes as the buffer has room
\* for, stores them from position totalRead on and leaves the bytes stored
\* before, and the other buffer, as they are
ReadsIntoTail ==
    pc \in {"read1", "read2"} =>
        LET r == IF pc = "read1" THEN 1 ELSE 2
            taken == Len(wire) - Len(wire')
        IN  /\ 0 <= taken /\ taken <= length.lo - totalRead
            /\ totalRead' = totalRead + taken
            /\ \A k \in 1..totalRead :
                  ByteAt(BufferOf(r, data', data2'), k) = ByteAt(BufferOf(r, data, data2), k)
            /\ \A k \in 1..taken :
                  ByteAt(BufferOf(r, data', data2'), totalRead + k) = wire[k]
            /\ BufferOf(3 - r, data', data2') = BufferOf(3 - r, data, data2)

\* C18: in both payload loops 0 <= totalRead <= length; each read takes at
\* most length - totalRead bytes and stores them behind the bytes already
\* read, which stay as they are; no read is issued once totalRead = length, so
\* what the peer sends beyond the declared length is left unread by the round.
C18_BoundedRead == [] WithinBuffer /\ [][ReadsIntoTail]_vars

\* round 1 has filled its buffer in more than one read and left unread what
\* the peer sent beyond the declared length
C18_Witness ==
    /\ pc = "write2"
    /\ totalRead = length.lo
    /\ totalRead > 1
    /\ got[1] = SubSeq(sent[1].payload, 1, totalRead)
    /\ wire # <<>>
    /\ Len(sent[1].payload) > totalRead
    /\ 1 \notin sawEOF

----------------------------------------------------------------------------
(* The banners of a successful scan *)

\* the string s is the lowercase hexadecimal text of n bytes: the bytes bs
\* followed by zero bytes
IsHexOfPadded(s, bs, n) ==
    /\ Len(bs) <= n
    /\ s.len = 2 * n
    /\ Len(s.head) <= 2 * Len(bs)
    /\ \A k \in 1..Len(bs) :
         16 * DigitVal(CharAt(s, 2 * k - 1)) + DigitVal(CharAt(s, 2 * k)) = bs[k]

\* C19: when Scan returns success, banner1 is the hex text of the whole
\* round-1 buffer, 2 * L1 characters for the declared length L1, and banner2
\* that of the whole 9-byte round-2 buffer, 18 characters: the bytes received
\* followed by zero bytes for what was not received; neither is empty.
C19_ResultSize ==
    (Returned /\ ret.status = SCAN_SUCCESS) =>
        /\ Len(decoded) = 2
        /\ Len(ret.results) = 1
        /\ IsHexOfPadded(ret.results[1].Banner1, got[1], decoded[1].lo)
        /\ IsHexOfPadded(ret.results[1].Banner2, got[2], Banner2Len)
        /\ ret.results[1].Banner1.len >= 2 * MinBannerLen
        /\ ret.results[1].Banner2.len = 2 * Banner2Len

\* a success whose second round ended on end-of-stream after five of the nine
\* declared bytes: banner2 has 18 characters, the last eight of them "0"
C19_Witness ==
    /\ Returned
    /\ ret.status = SCAN_SUCCESS
    /\ sawEOF = {2}
    /\ Len(got[2]) = 5
    /\ ret.results[1].Banner2.len = 18
    /\ \A k \in 11..18 : CharAt(ret.results[1].Banner2, k) = "0"

----------------------------------------------------------------------------
(* Termination *)

\* the peers of the scans followed to their end: silent ones, ones that
\* declare 2 or 9 bytes in one or two prefix bytes, and one that never ends
\* its prefix, sending 0, 2 or 9 payload bytes
LiveResponses ==
    { resp \in Responses :
        /\ resp.prefix \in {<<>>, <<2>>, <<9>>, <<137, 0>>,
                            <<255, 255, 255, 255, 255>>}
        /\ Len(resp.payload) \in {0, 2, Banner2Len} }

WriteProbeLive1 == WriteProbeFrom(1, probe1, LiveResponses)

WriteProbeLive2 == WriteProbeFrom(2, probe2, LiveResponses)

\* the scan on a connection whose Read may also return no bytes and no error
VarIntReadAny1 == VarIntReadFrom(1, ZeroByteRead)

VarIntReadAny2 == VarIntReadFrom(2, ZeroByteRead)

PayloadReadAny1 == PayloadReadFrom(1, ZeroByteRead)

PayloadReadAny2 == PayloadReadFrom(2, ZeroByteRead)

NextLive ==
    \/ Open
    \/ WriteProbeLive1
    \/ VarIntReadAny1
    \/ PayloadReadAny1
    \/ WriteProbeLive2
    \/ VarIntReadAny2
    \/ PayloadReadAny2

\* Scan runs on one goroutine and every call it makes returns, so a step that
\* is possible is taken in the end; a read that returns nothing at once and
\* changes nothing is not such a step
SpecLive == Init /\ [][NextLive]_vars /\ WF_vars(NextLive)

\* once the deadline of a payload loop has passed, the only step of the loop
\* is the return of the read timeout, without another read
DeadlineRechecked ==
    (pc \in {"read1", "read2"} /\ now >= timeout) =>
        /\ pc' = "done"
        /\ ret' = [status |-> SCAN_PROTOCOL_ERROR, results |-> <<>>,
                   err |-> "read timeout"]
        /\ wire' = wire
        /\ now' = now
        /\ ioErr' = ioErr

\* C20: when every call on the connection returns and the clock advances, every
\* scan returns; reads that keep returning no bytes, no error and no
\* end-of-stream do not keep a payload loop running, because each iteration
\* looks at the deadline first and returns the read timeout once it has passed.
C20_Termination == <>Returned /\ [][DeadlineRechecked]_vars

\* a payload loop whose reads delivered nothing, with no error and no
\* end-of-stream, ended by the read timeout
C20_Witness ==
    /\ Returned
    /\ ret.err = "read timeout"
    /\ Round \in idle
    /\ got[Round] = <<>>
    /\ sawEOF = {}
    /\ ~faulted

====
